---- MODULE Spec2Model ----
(***************************************************************************)
(* Revisionist (obsidian-revisionist): the provider adapters               *)
(* (BaseAdapter, OpenRouterAdapter, LMStudioAdapter, OpenAIAdapter), the   *)
(* model catalog and the prompt templates, as a state machine.             *)
(*                                                                         *)
(* One adapter object is live at a time (AIRevisionPlugin.aiAdapter).  A   *)
(* generateResponse / testConnection invocation runs synchronously up to   *)
(* its network await (the request is then on the wire) and finishes when   *)
(* the network answers; configuration calls may run in between.  The       *)
(* caller awaits an invocation before it starts the next one; invocations  *)
(* share nothing but the adapter's configuration fields, which they read   *)
(* in their synchronous part.                                              *)
(*                                                                         *)
(* Spec runs the adapters alone, under any sequence of calls of their      *)
(* public methods.  SpecPlugin runs the plugin (AIRevisionPlugin): the     *)
(* settings loaded at start, the adapter initializeAIAdapter creates from  *)
(* them, the settings tab's handlers, the revision request with its        *)
(* ResultModal and cost estimate, and the connection test.  SpecLocal is   *)
(* the plugin loaded with LM Studio as the stored provider, with the LM    *)
(* Studio fields of the settings tab.  SpecRevision is the revision        *)
(* dialogue with the ResultModal's buttons and the editor.  SpecSettings   *)
(* runs the SettingsService alone, with the DEFAULT_SETTINGS object it     *)
(* may share.                                                              *)
(***************************************************************************)
EXTENDS Integers, Sequences, FiniteSets, TLC

\* ------------------------------------------------------------ JS values
\* The JavaScript value undefined (a missing field or parameter).
Undefined == "<js:undefined>"

\* JavaScript truthiness of a string-or-undefined value: !!v.
Truthy(v) == v # "" /\ v # Undefined

\* Interpolation of a value in a template literal: `${v}`.
Str(v) == IF v = Undefined THEN "undefined" ELSE v

\* a || b
OrElse(a, b) == IF Truthy(a) THEN a ELSE b

\* ------------------------------------------------------------ catalog
OpenRouter == "openrouter"
LMStudio == "lmstudio"
OpenAI == "openai"
AIProvider == {OpenRouter, LMStudio, OpenAI}

\* One catalog entry; prices are in cents per million tokens, <<>> when the
\* entry declares none.
Model(apiName, inCost, outCost) ==
    [apiName |-> apiName, inputCostPer1M |-> inCost, outputCostPer1M |-> outCost]

AIModelMap ==
    [p \in AIProvider |->
        CASE p = OpenRouter ->
               << Model("anthropic/claude-3.5-haiku", <<100>>, <<100>>),
                  Model("anthropic/claude-4-sonnet", <<300>>, <<1500>>),
                  Model("google/gemini-2.5-flash", <<30>>, <<250>>),
                  Model("google/gemini-2.5-pro", <<125>>, <<1000>>),
                  Model("mistralai/mistral-large-2407", <<200>>, <<600>>),
                  Model("openai/gpt-4.1", <<200>>, <<800>>),
                  Model("openai/gpt-4.1-mini", <<40>>, <<160>>),
                  Model("openai/gpt-o1-mini", <<110>>, <<440>>) >>
          [] p = LMStudio ->
               << Model("custom", <<>>, <<>>) >>
          [] p = OpenAI ->
               << Model("gpt-4o", <<1000>>, <<3000>>),
                  Model("gpt-4o-mini", <<50>>, <<150>>),
                  Model("gpt-4.1-2025-04-14", <<200>>, <<800>>),
                  Model("gpt-4.1-mini-2025-04-14", <<40>>, <<160>>),
                  Model("gpt-4.1-nano-2025-04-14", <<10>>, <<40>>) >>]

\* The apiName of every catalog entry of provider p.
ApiNames(p) == {AIModelMap[p][i].apiName : i \in 1..Len(AIModelMap[p])}

\* Object.values(AIModelMap): the providers' catalogs in declaration order.
CatalogOrder == << OpenRouter, LMStudio, OpenAI >>

\* The first entry of a catalog with the given apiName: models.find(...),
\* <<>> for undefined.
Find(catalog, apiName) ==
    LET hits == {i \in 1..Len(catalog) : catalog[i].apiName = apiName}
    IN  IF hits = {} THEN <<>>
        ELSE << catalog[CHOOSE i \in hits : \A j \in hits : i <= j] >>

\* A lookup that searches the catalog of the first provider only.
getModelByApiName_FirstProviderOnly(apiName) ==
    Find(AIModelMap[CatalogOrder[1]], apiName)

\* AIModelUtils.getModelByApiName: the first match, going through the
\* providers in declaration order; <<>> for undefined.
getModelByApiName(apiName) ==
    LET hits == {k \in 1..Len(CatalogOrder) :
                   Find(AIModelMap[CatalogOrder[k]], apiName) # <<>>}
    IN  IF hits = {} THEN <<>>
        ELSE Find(AIModelMap[CatalogOrder[CHOOSE k \in hits :
                                            \A l \in hits : k <= l]],
                  apiName)

\* A provider's catalog in reverse order.
getModelsForProvider_Reversed(provider) ==
    IF provider \in DOMAIN AIModelMap
    THEN [i \in 1..Len(AIModelMap[provider]) |->
            AIModelMap[provider][Len(AIModelMap[provider]) + 1 - i]]
    ELSE <<>>

\* AIModelUtils.getModelsForProvider: AIModelMap[provider] || []
getModelsForProvider(provider) ==
    IF provider \in DOMAIN AIModelMap THEN AIModelMap[provider] ELSE <<>>

\* AIModelUtils.getDefaultModelForProvider: models?.[0], <<>> for undefined.
getDefaultModelForProvider(provider) ==
    IF Len(getModelsForProvider(provider)) > 0
    THEN << getModelsForProvider(provider)[1] >>
    ELSE <<>>

\* ------------------------------------------------------------ cost
\* !price: an entry without the price, or with a price of 0.
NoPrice(price) == price = <<>> \/ price[1] = 0

\* A cost estimate that rounds each side to whole cents.
calculateApproximateCost_Rounded(tokens, modelName) ==
    LET model == getModelByApiName(modelName)
    IN  IF model = <<>> THEN <<>>
        ELSE IF NoPrice(model[1].inputCostPer1M)
                  \/ NoPrice(model[1].outputCostPer1M) THEN <<>>
        ELSE LET inputCost ==
                     ((tokens.input * model[1].inputCostPer1M[1]) \div 1000000)
                         * 1000000
                 outputCost ==
                     ((tokens.output * model[1].outputCostPer1M[1]) \div 1000000)
                         * 1000000
             IN  << [input |-> inputCost, output |-> outputCost,
                     total |-> inputCost + outputCost] >>

\* AIRevisionPlugin.calculateApproximateCost; <<>> for undefined.  With
\* prices in cents per million tokens, (tokens / 1_000_000) * price is the
\* integer tokens * price in millionths of a cent.
calculateApproximateCost(tokens, modelName) ==
    LET model == getModelByApiName(modelName)
    IN  IF model = <<>> THEN <<>>
        ELSE IF NoPrice(model[1].inputCostPer1M)
                  \/ NoPrice(model[1].outputCostPer1M) THEN <<>>
        ELSE LET inputCost == tokens.input * model[1].inputCostPer1M[1]
                 outputCost == tokens.output * model[1].outputCostPer1M[1]
             IN  << [input |-> inputCost, output |-> outputCost,
                     total |-> inputCost + outputCost] >>

\* ------------------------------------------------------------ prompts
SYSTEM == "# MISSION\nAct as a professional ghostwriter and editing assistant"

TemplateHead == "\nRevise the following text based on the following\n\n## Full Document\n"
TemplateText == "\n\n## Text to revise\n"
TemplateInstructions == "\n\n## Instructions\n"
TemplateTail == "\n"

\* CONFIG.PROMPTS.formatUserPrompt: the template literal, as the sequence of
\* its pieces in the order they are concatenated.
formatUserPrompt(instructions, selectedText, fullNote) ==
    << TemplateHead, Str(fullNote),
       TemplateText, Str(selectedText),
       TemplateInstructions, Str(instructions),
       TemplateTail >>

\* ------------------------------------------------------------ adapters
\* An adapter object.  client is <<>> (null) or <<k>>: an SDK client built
\* with API key k (OpenAIAdapter only).  port and modelName exist on the
\* LMStudioAdapter only and are "" on the others.
NoAdapter == [kind |-> "none", apiKey |-> "", port |-> "", modelName |-> "",
              client |-> <<>>]

\* new OpenRouterAdapter() / new LMStudioAdapter() / new OpenAIAdapter()
NewAdapter(p) ==
    [kind |-> p, apiKey |-> "",
     port |-> IF p = LMStudio THEN "1234" ELSE "",
     modelName |-> IF p = LMStudio THEN "default" ELSE "",
     client |-> <<>>]

\* this.models, set by the BaseAdapter constructor.
models(a) == AIModelMap[a.kind]

\* this.models[0]?.apiName
FirstApiName(a) ==
    IF Len(models(a)) > 0 THEN models(a)[1].apiName ELSE Undefined

\* A getApiModelName without the fallback: the requested name goes through.
getApiModelName_NoFallback(a, modelApiName) == modelApiName

\* A getApiModelName that falls back to the last catalog entry, not the first.
getApiModelName_LastFallback(a, modelApiName) ==
    IF modelApiName \in ApiNames(a.kind)
    THEN modelApiName
    ELSE models(a)[Len(models(a))].apiName

\* BaseAdapter.getApiModelName
getApiModelName(a, modelApiName) ==
    IF modelApiName \in ApiNames(a.kind)
    THEN modelApiName
    ELSE OrElse(FirstApiName(a), modelApiName)

\* BaseAdapter.isReady for every adapter, without LMStudioAdapter's override.
isReady_NoOverride(a) ==
    (Truthy(a.apiKey) \/ a.kind = LMStudio) /\ Len(models(a)) > 0

\* BaseAdapter.isReady, overridden by LMStudioAdapter.isReady
isReady(a) ==
    IF a.kind = LMStudio
    THEN Truthy(a.port) /\ Truthy(a.modelName)
    ELSE (Truthy(a.apiKey) \/ a.kind = LMStudio) /\ Len(models(a)) > 0

\* OpenAIAdapter.ensureClient: the adapter after the call (the client is
\* created when there is none and a key is set) ...
ensureClient(a) ==
    IF a.client = <<>> /\ Truthy(a.apiKey)
    THEN [a EXCEPT !.client = <<a.apiKey>>]
    ELSE a

\* ... and whether the call throws ('OpenAI client not initialized').
ensureClientThrows(a) == ensureClient(a).client = <<>>

\* An OpenAIAdapter.setApiKey that keeps the cached client when the key
\* changes.
setApiKey_KeepClient(a, apiKey) ==
    IF a.kind = OpenAI
    THEN LET keyed == [a EXCEPT !.apiKey = apiKey]
         IN  IF Truthy(apiKey) THEN ensureClient(keyed) ELSE keyed
    ELSE [a EXCEPT !.apiKey = apiKey]

\* BaseAdapter.setApiKey, overridden by OpenAIAdapter.setApiKey
setApiKey(a, apiKey) ==
    IF a.kind = OpenAI
    THEN LET reset == IF a.apiKey # apiKey THEN [a EXCEPT !.client = <<>>] ELSE a
             keyed == [reset EXCEPT !.apiKey = apiKey]
         IN  IF Truthy(apiKey) THEN ensureClient(keyed) ELSE keyed
    ELSE [a EXCEPT !.apiKey = apiKey]

\* configure: LMStudioAdapter stores the truthy fields; the hosted adapters
\* do nothing.
configure(a, config) ==
    IF a.kind = LMStudio
    THEN [a EXCEPT !.port = IF Truthy(config.port) THEN config.port ELSE @,
                   !.modelName = IF Truthy(config.modelName)
                                 THEN config.modelName ELSE @]
    ELSE a

\* LMStudioAdapter.setPort / setModelName
setPort(a, port) == [a EXCEPT !.port = port]
setModelName(a, modelName) == [a EXCEPT !.modelName = modelName]

\* ------------------------------------------------------------ network
\* A thrown (rejected) value: an object or a primitive; an Error carries a
\* message.
Err(message) == [isObject |-> TRUE, isError |-> TRUE, message |-> message]
NonErrorObject == [isObject |-> TRUE, isError |-> FALSE, message |-> Undefined]
Primitive == [isObject |-> FALSE, isError |-> FALSE, message |-> Undefined]

\* What a rejected network call can throw.
Thrown == {Err("net::ERR_CONNECTION_REFUSED"), NonErrorObject, Primitive}

\* response.json.usage / response.usage: absent, or an object holding some
\* of the counters.
Usages(kind) ==
    IF kind = OpenAI
    THEN { <<>>,
           << [input_tokens |-> 12, output_tokens |-> 7, total_tokens |-> 19] >>,
           << [total_tokens |-> 19] >>,
           << [input_tokens |-> 1000000, output_tokens |-> 0,
               total_tokens |-> 1000000] >> }
    ELSE { <<>>,
           << [prompt_tokens |-> 12, completion_tokens |-> 7, total_tokens |-> 19] >>,
           << [total_tokens |-> 19] >>,
           << [prompt_tokens |-> 1000000, completion_tokens |-> 0,
               total_tokens |-> 1000000] >> }

\* The text a provider can put where the adapter looks for it: some text,
\* the empty string, or nothing.
Texts == {"Revised.", "", Undefined}

\* response.output of the responses style, as the text of the first
\* output_text item of its first message entry: <<>> when there is none.
Outputs == {<<>>, << "Revised in output." >>}

\* A resolved network call.  Chat-completions style (requestUrl): status and
\* json.choices[0].message.content; responses style (the SDK): output_text
\* and output.
Responses(kind) ==
    IF kind = OpenAI
    THEN [output_text : Texts, output : Outputs, usage : Usages(kind)]
    ELSE [status : {200}, content : Texts, usage : Usages(kind)]

\* How the awaited network call of an adapter of this kind can end.
Outcomes(kind) ==
    {[ok |-> TRUE, response |-> r] : r \in Responses(kind)}
        \cup {[ok |-> FALSE, error |-> e] : e \in Thrown}

\* ------------------------------------------------------------ requests
Message(role, content) == [role |-> role, content |-> content]

\* An LMStudioAdapter.makeApiRequest that sends the adapter's API key, when
\* it has one, as OpenRouterAdapter's does.
makeApiRequest_KeyToLocal(a, params) ==
    IF a.kind = LMStudio
    THEN [url |-> <<"http://localhost:", a.port, "/v1/chat/completions">>,
          Authorization |-> IF Truthy(a.apiKey)
                            THEN <<"Bearer ", a.apiKey>> ELSE <<>>,
          body |-> [model |-> a.modelName,
                    messages |->
                      << Message("system", <<SYSTEM>>),
                         Message("user",
                                 formatUserPrompt(params.prompt,
                                                  OrElse(params.selectedText, ""),
                                                  params.fullNoteContent)) >>]]
    ELSE [url |-> <<"https://openrouter.ai/api/v1/chat/completions">>,
          Authorization |-> <<"Bearer ", a.apiKey>>,
          body |-> [model |-> params.model,
                    messages |->
                      IF params.isTest
                      THEN << Message("user", <<params.prompt>>) >>
                      ELSE << Message("system", <<SYSTEM>>),
                              Message("user",
                                      formatUserPrompt(params.prompt,
                                                       OrElse(params.selectedText, ""),
                                                       params.fullNote)) >>]]

\* A makeApiRequest whose hosted request carries an empty credential.
makeApiRequest_EmptyCredential(a, params) ==
    IF a.kind = LMStudio
    THEN [url |-> <<"http://localhost:", a.port, "/v1/chat/completions">>,
          Authorization |-> <<>>,
          body |-> [model |-> a.modelName,
                    messages |->
                      << Message("system", <<SYSTEM>>),
                         Message("user",
                                 formatUserPrompt(params.prompt,
                                                  OrElse(params.selectedText, ""),
                                                  params.fullNoteContent)) >>]]
    ELSE [url |-> <<"https://openrouter.ai/api/v1/chat/completions">>,
          Authorization |-> <<"Bearer ", "">>,
          body |-> [model |-> params.model,
                    messages |->
                      IF params.isTest
                      THEN << Message("user", <<params.prompt>>) >>
                      ELSE << Message("system", <<SYSTEM>>),
                              Message("user",
                                      formatUserPrompt(params.prompt,
                                                       OrElse(params.selectedText, ""),
                                                       params.fullNote)) >>]]

\* OpenRouterAdapter.makeApiRequest / LMStudioAdapter.makeApiRequest: the
\* request handed to requestUrl.  The url and the user content are the
\* sequences of their concatenated pieces; Authorization is <<>> when the
\* header is not sent.
makeApiRequest(a, params) ==
    IF a.kind = LMStudio
    THEN [url |-> <<"http://localhost:", a.port, "/v1/chat/completions">>,
          Authorization |-> <<>>,
          body |-> [model |-> a.modelName,
                    messages |->
                      << Message("system", <<SYSTEM>>),
                         Message("user",
                                 formatUserPrompt(params.prompt,
                                                  OrElse(params.selectedText, ""),
                                                  params.fullNoteContent)) >>]]
    ELSE [url |-> <<"https://openrouter.ai/api/v1/chat/completions">>,
          Authorization |-> <<"Bearer ", a.apiKey>>,
          body |-> [model |-> params.model,
                    messages |->
                      IF params.isTest
                      THEN << Message("user", <<params.prompt>>) >>
                      ELSE << Message("system", <<SYSTEM>>),
                              Message("user",
                                      formatUserPrompt(params.prompt,
                                                       OrElse(params.selectedText, ""),
                                                       params.fullNote)) >>]]

\* client.responses.create(body) on an SDK client built with clientKey.
\* instructions is <<>> when the field is not given.
responsesCreate(clientKey, body) ==
    [url |-> <<"openai-sdk:responses.create">>,
     Authorization |-> <<"Bearer ", clientKey>>,
     body |-> body]

\* ------------------------------------------------------------ responses
\* A value returned ([threw |-> FALSE, value]) or an Error thrown.
Return(v) == [threw |-> FALSE, value |-> v]
Throw(e) == [threw |-> TRUE, error |-> e]

\* OpenRouterAdapter.extractContentFromResponse /
\* LMStudioAdapter.extractContentFromResponse
extractContentFromResponse(kind, response) ==
    IF ~Truthy(response.content)
    THEN Throw(Err(IF kind = LMStudio
                   THEN "Invalid response format from LM Studio API"
                   ELSE "Invalid response format from OpenRouter API"))
    ELSE Return(response.content)

\* A missing counter left as it is read, with no default (-1 stands for the
\* non-number that results).
Counter_NoDefault(usage, field) ==
    IF usage # <<>> /\ field \in DOMAIN usage[1] THEN usage[1][field] ELSE -1

\* usage?.field || 0
Counter(usage, field) ==
    IF usage # <<>> /\ field \in DOMAIN usage[1] THEN usage[1][field] ELSE 0

\* extractTokenCounts of the three adapters (and the inlined copy in
\* OpenAIAdapter.generateResponse)
extractTokenCounts(kind, response) ==
    IF kind = OpenAI
    THEN [input |-> Counter(response.usage, "input_tokens"),
          output |-> Counter(response.usage, "output_tokens"),
          total |-> Counter(response.usage, "total_tokens")]
    ELSE [input |-> Counter(response.usage, "prompt_tokens"),
          output |-> Counter(response.usage, "completion_tokens"),
          total |-> Counter(response.usage, "total_tokens")]

\* ------------------------------------------------------------ results
\* What the caller of an async method gets: the promise rejects ...
Rejected == [rejected |-> TRUE]

\* ... or resolves to an APIResponse<string>; tokens is <<>> when absent and
\* error is Undefined when absent.
APIResponse(success, data, tokens, error) ==
    [rejected |-> FALSE, success |-> success, data |-> data,
     tokens |-> tokens, error |-> error]

\* ... or, for testConnection, to a boolean.
Resolved(b) == [rejected |-> FALSE, value |-> b]

\* BaseAdapter.handleError.  The 'response' in error test throws a TypeError
\* when error is not an object, and nothing catches it.
handleError(kind, error) ==
    IF ~error.isObject
    THEN Rejected
    ELSE APIResponse(FALSE, "",  <<>>,
                     IF error.isError THEN error.message
                     ELSE "Unknown error occurred")

\* ------------------------------------------------------------ invocations
\* A BaseAdapter.generateResponse without the API key check.
baseGenerateSend_NoKeyCheck(a, prompt, modelApiName, options) ==
    LET apiModel == getApiModelName(a, modelApiName)
    IN  IF ~Truthy(apiModel)
        THEN [adapter |-> a, wire |-> <<>>,
              error |-> << Err("No valid model found for " \o a.kind) >>]
        ELSE [adapter |-> a, error |-> <<>>,
              wire |-> << makeApiRequest(a,
                            [model |-> apiModel,
                             prompt |-> prompt,
                             selectedText |-> OrElse(options.selectedText, ""),
                             fullNote |-> Undefined,
                             fullNoteContent |-> Undefined,
                             isTest |-> FALSE]) >>]

\* The synchronous part of BaseAdapter.generateResponse (OpenRouter, LM
\* Studio), up to the await of makeApiRequest: a request on the wire, or an
\* Error thrown before any request.  options.fullNote is not forwarded.
baseGenerateSend(a, prompt, modelApiName, options) ==
    LET apiModel == getApiModelName(a, modelApiName)
    IN  IF ~Truthy(apiModel)
        THEN [adapter |-> a, wire |-> <<>>,
              error |-> << Err("No valid model found for " \o a.kind) >>]
        ELSE IF ~Truthy(a.apiKey) /\ a.kind # LMStudio
        THEN [adapter |-> a, wire |-> <<>>,
              error |-> << Err(a.kind \o " API key is not set") >>]
        ELSE [adapter |-> a, error |-> <<>>,
              wire |-> << makeApiRequest(a,
                            [model |-> apiModel,
                             prompt |-> prompt,
                             selectedText |-> OrElse(options.selectedText, ""),
                             fullNote |-> Undefined,
                             fullNoteContent |-> Undefined,
                             isTest |-> FALSE]) >>]

\* The synchronous part of OpenAIAdapter.generateResponse, up to the await of
\* client.responses.create.
openAIGenerateSend(a, prompt, modelApiName, options) ==
    IF ensureClientThrows(a)
    THEN [adapter |-> a, wire |-> <<>>,
          error |-> << Err("OpenAI client not initialized - missing API key") >>]
    ELSE LET a1 == ensureClient(a)
             apiModel == getApiModelName(a1, modelApiName)
         IN  IF ~Truthy(apiModel)
             THEN [adapter |-> a1, wire |-> <<>>,
                   error |-> << Err("No valid model found for " \o a1.kind) >>]
             ELSE [adapter |-> a1, error |-> <<>>,
                   wire |-> << responsesCreate(a1.client[1],
                                 [model |-> apiModel,
                                  input |-> formatUserPrompt(
                                              prompt,
                                              OrElse(options.selectedText, ""),
                                              OrElse(options.fullNote, "")),
                                  instructions |-> <<SYSTEM>>]) >>]

\* generateResponse up to its await, by dynamic dispatch.
generateSend(a, prompt, modelApiName, options) ==
    IF a.kind = OpenAI
    THEN openAIGenerateSend(a, prompt, modelApiName, options)
    ELSE baseGenerateSend(a, prompt, modelApiName, options)

\* BaseAdapter.generateResponse after the await: extraction, or the catch.
baseGenerateReceive(kind, outcome) ==
    IF outcome.ok
    THEN LET content == extractContentFromResponse(kind, outcome.response)
         IN  IF content.threw
             THEN handleError(kind, content.error)
             ELSE APIResponse(TRUE, content.value,
                              << extractTokenCounts(kind, outcome.response) >>,
                              Undefined)
    ELSE handleError(kind, outcome.error)

\* OpenAIAdapter.generateResponse after the await.
openAIGenerateReceive(kind, outcome) ==
    IF outcome.ok
    THEN APIResponse(TRUE, OrElse(outcome.response.output_text, ""),
                     << extractTokenCounts(kind, outcome.response) >>,
                     Undefined)
    ELSE handleError(kind, outcome.error)

generateReceive(kind, outcome) ==
    IF kind = OpenAI
    THEN openAIGenerateReceive(kind, outcome)
    ELSE baseGenerateReceive(kind, outcome)

\* A testConnection that does not ask isReady() first.
testConnectionSend_NoReadyCheck(a) ==
    IF a.kind = OpenAI
    THEN IF ensureClientThrows(a)
         THEN [adapter |-> a, wire |-> <<>>, value |-> <<FALSE>>]
         ELSE [adapter |-> ensureClient(a), value |-> <<>>,
               wire |-> << responsesCreate(ensureClient(a).client[1],
                             [model |-> "gpt-4.1-nano-2025-04-14",
                              input |-> <<"Hi">>,
                              instructions |-> <<>>]) >>]
    ELSE [adapter |-> a, value |-> <<>>,
          wire |-> << makeApiRequest(a,
                        [model |-> OrElse(FirstApiName(a), ""),
                         prompt |-> "Hi",
                         selectedText |-> Undefined,
                         fullNote |-> Undefined,
                         fullNoteContent |-> Undefined,
                         isTest |-> TRUE]) >>]

\* The model testConnection of the OpenAI adapter names.
testModel == "gpt-4.1-nano-2025-04-14"

\* testConnection up to its await: BaseAdapter.testConnection (OpenRouter,
\* LM Studio) and OpenAIAdapter.testConnection.  value is the boolean
\* returned without a request, <<>> when a request went out.
testConnectionSend(a) ==
    IF ~isReady(a)
    THEN [adapter |-> a, wire |-> <<>>, value |-> <<FALSE>>]
    ELSE IF a.kind = OpenAI
    THEN IF ensureClientThrows(a)
         THEN [adapter |-> a, wire |-> <<>>, value |-> <<FALSE>>]
         ELSE [adapter |-> ensureClient(a), value |-> <<>>,
               wire |-> << responsesCreate(ensureClient(a).client[1],
                             [model |-> testModel,
                              input |-> <<"Hi">>,
                              instructions |-> <<>>]) >>]
    ELSE [adapter |-> a, value |-> <<>>,
          wire |-> << makeApiRequest(a,
                        [model |-> OrElse(FirstApiName(a), ""),
                         prompt |-> "Hi",
                         selectedText |-> Undefined,
                         fullNote |-> Undefined,
                         fullNoteContent |-> Undefined,
                         isTest |-> TRUE]) >>]

\* testConnection after the await.
testConnectionReceive(kind, outcome) ==
    IF kind = OpenAI
    THEN outcome.ok
    ELSE outcome.ok /\ outcome.response.status = 200
                    /\ Truthy(outcome.response.content)

\* ------------------------------------------------------------ inputs
\* Model identifiers a caller asks for: one of each provider's catalog (not
\* its first entry, except LM Studio's only one) and the shipped default
\* 'anthropic/claude-3.5-sonnet', which no catalog declares.
ModelIds == {"anthropic/claude-4-sonnet", "gpt-4o-mini", "custom",
             "anthropic/claude-3.5-sonnet"}
Prompts == {"Make it formal."}
SelectedTexts == {"The cat sat."}
FullNotes == {"", "Intro. The cat sat. End."}
ApiKeys == {"", "sk-a", "sk-b"}
Ports == {"", "1234", "8080"}
ModelNames == {"", "default", "llama-3"}

\* ------------------------------------------------------------ settings
\* A provider name no case of initializeAIAdapter's switch handles.
UnknownProvider == "legacy-provider"

\* DEFAULT_SETTINGS (settingsService.ts): no OpenAI key is declared.  The
\* temperature (0.7) is in hundredths, the slider's step being 0.05.
DEFAULT_SETTINGS ==
    [provider |-> OpenRouter,
     apiKeys |-> [openrouter |-> "", openai |-> Undefined],
     defaultModel |-> "anthropic/claude-3.5-sonnet",
     defaultTemperature |-> 70,
     lmStudio |-> [port |-> "1234", modelName |-> "default"]]

\* The stored default models considered.
DefaultModels ==
    {"anthropic/claude-3.5-sonnet", "anthropic/claude-4-sonnet", "gpt-4o-mini",
     "custom"}

\* SettingsService.loadSettings: DEFAULT_SETTINGS overlaid with the saved
\* data, whatever was saved.
SavedSettings ==
    [provider : AIProvider \cup {UnknownProvider},
     apiKeys : [openrouter : {"", "sk-or"}, openai : {Undefined, "sk-oa"}],
     defaultModel : DefaultModels,
     defaultTemperature : {DEFAULT_SETTINGS.defaultTemperature},
     lmStudio : {DEFAULT_SETTINGS.lmStudio}]

\* AIRevisionPlugin.initializeAIAdapter: the value of this.aiAdapter after
\* the call; the default case returns and leaves it as it was.
initializeAIAdapter(current, s) ==
    CASE s.provider = OpenRouter ->
           setApiKey(NewAdapter(OpenRouter), s.apiKeys[OpenRouter])
      [] s.provider = LMStudio ->
           configure(NewAdapter(LMStudio), s.lmStudio)
      [] s.provider = OpenAI ->
           setApiKey(NewAdapter(OpenAI), s.apiKeys[OpenAI])
      [] OTHER -> current

\* AIRevisionPlugin.updateAdapterConfig: the value of this.aiAdapter after
\* the call.  An existing adapter is kept and handed the settings of the
\* selected provider.
updateAdapterConfig(current, s) ==
    IF current.kind = "none" THEN initializeAIAdapter(current, s)
    ELSE CASE s.provider = OpenRouter ->
                setApiKey(current, s.apiKeys[OpenRouter])
           [] s.provider = LMStudio ->
                configure(current, s.lmStudio)
           [] s.provider = OpenAI ->
                setApiKey(current, s.apiKeys[OpenAI])
           [] OTHER -> current

\* ------------------------------------------------------------ state
VARIABLES
    adapter,   \* AIRevisionPlugin.aiAdapter: the live adapter object
    call,      \* the current (or last) generateResponse / testConnection
               \* invocation: its arguments, isReady() when it began, the
               \* request it put on the wire, the number of network calls
               \* it made, how the network answered, and its result
    settings,  \* SettingsService.settings
    ui,        \* what the user sees of a revision: the open ResultModal
               \* with its text and cost, the last Notice, an uncaught fault
    editor,    \* the editor: the note as the text before the selection,
               \* the text the user selects and the text after it, and
               \* whether that text is selected
    defaults   \* the DEFAULT_SETTINGS object: its fields now, whether
               \* this.settings is that very object, the nested objects
               \* (apiKeys, lmStudio) this.settings shares with it, and
               \* whether resetSettings was the last SettingsService call

vars == <<adapter, call, settings, ui, editor, defaults>>

IdleCall ==
    [pc |-> "idle", kind |-> "none", op |-> "none", prompt |-> "",
     modelApiName |-> "", selectedText |-> "", fullNote |-> "",
     ready |-> FALSE, wire |-> <<>>, netCalls |-> 0,
     outcome |-> <<>>, result |-> <<>>]

\* Nothing shown: no ResultModal (its text, and its cost, <<>> when it has
\* none), no Notice, no uncaught TypeError; model is the identifier the
\* RevisionModal submitted.
IdleUi ==
    [modal |-> "none", model |-> "", text |-> "", cost |-> <<>>,
     notice |-> "", fault |-> FALSE]

\* The note the user works on, with its middle sentence selected.
InitialEditor ==
    [text |-> << "Intro. ", "The cat sat.", " End." >>, selected |-> TRUE]

\* editor.getSelection(): the selected text, "" when nothing is selected.
getSelection(e) == IF e.selected THEN e.text[2] ELSE ""

\* editor.getValue(): the whole note.
getValue(e) == e.text[1] \o e.text[2] \o e.text[3]

\* A replaceSelection that keeps the selected text and puts the new text
\* after it.
replaceSelection_Insert(e, replacement) ==
    [text |-> [e.text EXCEPT ![2] = @ \o replacement], selected |-> FALSE]

\* editor.replaceSelection(replacement): the selected text gives way to the
\* replacement and the selection collapses behind it; with nothing
\* selected the replacement goes in at the cursor, which is behind the text
\* last replaced.
replaceSelection(e, replacement) ==
    IF e.selected
    THEN [text |-> [e.text EXCEPT ![2] = replacement], selected |-> FALSE]
    ELSE [text |-> [e.text EXCEPT ![2] = @ \o replacement], selected |-> FALSE]

\* DEFAULT_SETTINGS as shipped, with a SettingsService that loaded saved
\* data holding apiKeys and lmStudio: this.settings shares no object with
\* it.
ShippedDefaults ==
    [settings |-> DEFAULT_SETTINGS, same |-> FALSE, shared |-> {},
     reset |-> FALSE]

\* A retry: one more network call when the awaited call was rejected.
callsAfterAwait_Retry(kind, op, outcome) == IF outcome.ok THEN 0 ELSE 1

\* The number of further network calls the code makes after the awaited call
\* ended: none, neither generateResponse nor testConnection retries.
callsAfterAwait(kind, op, outcome) == 0

\* aiAdapter.generateResponse(prompt, modelApiName, {selectedText, fullNote}),
\* the synchronous part: the adapter and the invocation after it.  Either the
\* request goes out and the invocation awaits the network, or an Error is
\* caught before and handleError ends it.
generateCall(a, prompt, modelApiName, selectedText, fullNote) ==
    LET send == generateSend(a, prompt, modelApiName,
                             [selectedText |-> selectedText,
                              fullNote |-> fullNote])
        started == [IdleCall EXCEPT
                      !.kind = a.kind, !.op = "generate",
                      !.prompt = prompt, !.modelApiName = modelApiName,
                      !.selectedText = selectedText, !.fullNote = fullNote,
                      !.ready = isReady(a)]
    IN  [adapter |-> send.adapter,
         call |-> IF send.wire # <<>>
                  THEN [started EXCEPT !.pc = "inflight",
                                       !.wire = send.wire,
                                       !.netCalls = 1]
                  ELSE [started EXCEPT
                          !.pc = "done",
                          !.result = << handleError(a.kind, send.error[1]) >>]]

\* AIRevisionPlugin.testConnection -> aiAdapter.testConnection(), the
\* synchronous part: the adapter and the invocation after it.
testConnectionCall(a) ==
    IF a.kind = "none"
    THEN [adapter |-> a,
          call |-> [IdleCall EXCEPT !.op = "test", !.pc = "done",
                                    !.result = << Resolved(FALSE) >>]]
    ELSE LET send == testConnectionSend(a)
             started == [IdleCall EXCEPT !.kind = a.kind,
                                         !.op = "test",
                                         !.ready = isReady(a)]
         IN  [adapter |-> send.adapter,
              call |-> IF send.wire # <<>>
                       THEN [started EXCEPT !.pc = "inflight",
                                            !.wire = send.wire,
                                            !.netCalls = 1]
                       ELSE [started EXCEPT
                               !.pc = "done",
                               !.result = << Resolved(send.value[1]) >>]]

\* The invocation c after the network answered its request: it runs to its
\* end on the adapter object that issued it.
respondCall(c, outcome) ==
    [c EXCEPT
       !.pc = "done",
       !.outcome = << outcome >>,
       !.netCalls = @ + callsAfterAwait(c.kind, c.op, outcome),
       !.result =
          IF c.op = "generate"
          THEN << generateReceive(c.kind, outcome) >>
          ELSE << Resolved(testConnectionReceive(c.kind, outcome)) >>]

\* ------------------------------------------------------------ adapters alone
\* The adapter objects under any sequence of calls of their public methods.
Init ==
    /\ adapter \in {NoAdapter} \cup {NewAdapter(p) : p \in AIProvider}
    /\ call = IdleCall
    /\ settings = DEFAULT_SETTINGS
    /\ ui = IdleUi
    /\ editor = InitialEditor
    /\ defaults = ShippedDefaults

\* AIRevisionPlugin.initializeAIAdapter: this.aiAdapter = new ...Adapter()
Construct(p) ==
    /\ adapter' = NewAdapter(p)
    /\ UNCHANGED <<call, settings, ui, editor, defaults>>

\* aiAdapter.setApiKey(apiKey)
SetApiKey(apiKey) ==
    /\ adapter.kind # "none"
    /\ adapter' = setApiKey(adapter, apiKey)
    /\ UNCHANGED <<call, settings, ui, editor, defaults>>

\* aiAdapter.configure({port, modelName})
Configure(port, modelName) ==
    /\ adapter.kind # "none"
    /\ adapter' = configure(adapter, [port |-> port, modelName |-> modelName])
    /\ UNCHANGED <<call, settings, ui, editor, defaults>>

\* LMStudioAdapter.setPort(port)
SetPort(port) ==
    /\ adapter.kind = LMStudio
    /\ adapter' = setPort(adapter, port)
    /\ UNCHANGED <<call, settings, ui, editor, defaults>>

\* LMStudioAdapter.setModelName(modelName)
SetModelName(modelName) ==
    /\ adapter.kind = LMStudio
    /\ adapter' = setModelName(adapter, modelName)
    /\ UNCHANGED <<call, settings, ui, editor, defaults>>

\* aiAdapter.generateResponse(prompt, modelApiName, {selectedText, fullNote}):
\* the synchronous part.
Generate(prompt, modelApiName, selectedText, fullNote) ==
    /\ adapter.kind # "none"
    /\ call.pc # "inflight"
    /\ LET g == generateCall(adapter, prompt, modelApiName, selectedText,
                             fullNote)
       IN  /\ adapter' = g.adapter
           /\ call' = g.call
    /\ UNCHANGED <<settings, ui, editor, defaults>>

\* AIRevisionPlugin.testConnection -> aiAdapter.testConnection(): the
\* synchronous part.
TestConnection ==
    /\ call.pc # "inflight"
    /\ LET t == testConnectionCall(adapter)
       IN  /\ adapter' = t.adapter
           /\ call' = t.call
    /\ UNCHANGED <<settings, ui, editor, defaults>>

\* The network answers the request in flight and the invocation runs to its
\* end on the adapter object that issued it.
Respond(outcome) ==
    /\ call.pc = "inflight"
    /\ outcome \in Outcomes(call.kind)
    /\ call' = respondCall(call, outcome)
    /\ UNCHANGED <<adapter, settings, ui, editor, defaults>>

Next ==
    \/ \E p \in AIProvider : Construct(p)
    \/ \E k \in ApiKeys : SetApiKey(k)
    \/ \E port \in Ports, m \in ModelNames : Configure(port, m)
    \/ \E port \in Ports : SetPort(port)
    \/ \E m \in ModelNames : SetModelName(m)
    \/ \E prompt \in Prompts, id \in ModelIds, sel \in SelectedTexts,
          note \in FullNotes : Generate(prompt, id, sel, note)
    \/ TestConnection
    \/ \E o \in UNION {Outcomes(kind) : kind \in AIProvider} : Respond(o)

Spec == Init /\ [][Next]_vars

\* ------------------------------------------------------------ the plugin
\* The plugin: the settings tab's handlers, the revision request and the
\* connection test, on the adapter initializeAIAdapter created at load.

\* The message of the TypeError handleError raises on a non-object.
TypeErrorMessage == "Cannot use 'in' operator to search for 'response'"

\* A callback that does not look at response.success: every response that
\* is returned opens the ResultModal.
afterGenerate_NoSuccessCheck(model, response) ==
    IF response.rejected
    THEN [IdleUi EXCEPT !.model = model,
                        !.notice = "Error: " \o TypeErrorMessage]
    ELSE [IdleUi EXCEPT
            !.model = model, !.modal = "result", !.text = Str(response.data),
            !.cost = IF response.tokens # <<>>
                     THEN calculateApproximateCost(response.tokens[1], model)
                     ELSE <<>>]

\* The RevisionModal callback of handleRevisionRequest after the awaited
\* generateResponse ended: a rejection or a failure is caught and shown as a
\* Notice; a success opens the ResultModal with the text and the cost
\* computed for the identifier the modal submitted.
afterGenerate(model, response) ==
    IF response.rejected
    THEN [IdleUi EXCEPT !.model = model,
                        !.notice = "Error: " \o TypeErrorMessage]
    ELSE IF ~response.success
    THEN [IdleUi EXCEPT !.model = model,
                        !.notice = "Error: " \o OrElse(response.error,
                                                "Failed to generate revision")]
    ELSE [IdleUi EXCEPT
            !.model = model, !.modal = "result", !.text = response.data,
            !.cost = IF response.tokens # <<>>
                     THEN calculateApproximateCost(response.tokens[1], model)
                     ELSE <<>>]

\* The keys the user types in the key field of a hosted provider.
TypedKeys(provider) ==
    IF provider = OpenRouter THEN {"", "sk-or"} ELSE {"", "sk-oa"}

\* The identifiers the RevisionModal can submit: settings.defaultModel, or,
\* with its dropdown (shown when the provider is OpenRouter), an entry of
\* the OpenRouter catalog.
Submittable(s) ==
    {s.defaultModel}
        \cup IF s.provider = OpenRouter
             THEN ApiNames(OpenRouter) \cap DefaultModels
             ELSE {}

InitPlugin ==
    /\ settings \in SavedSettings
    /\ adapter = initializeAIAdapter(NoAdapter, settings)
    /\ call = IdleCall
    /\ ui = IdleUi
    /\ editor = InitialEditor
    /\ defaults = ShippedDefaults

\* settingsTab.addProviderSelection, the dropdown's onChange:
\* updateSetting('provider', value) and a redisplay.
ProviderOnChange(provider) ==
    /\ settings' = [settings EXCEPT !.provider = provider]
    /\ UNCHANGED <<adapter, call, ui, editor, defaults>>

\* settingsTab.addOpenRouterSettings / addOpenAISettings, the key field's
\* onChange: settingsService.setApiKey(provider, value), then
\* plugin.updateAdapterConfig().
ApiKeyOnChange(value) ==
    /\ settings.provider \in {OpenRouter, OpenAI}
    /\ value \in TypedKeys(settings.provider)
    /\ settings' = [settings EXCEPT !.apiKeys[settings.provider] = value]
    /\ adapter' = updateAdapterConfig(adapter, settings')
    /\ UNCHANGED <<call, ui, editor, defaults>>

\* settingsTab.addDefaultSettings, the default model dropdown's onChange.
DefaultModelOnChange(value) ==
    /\ settings.provider \in {OpenRouter, OpenAI}
    /\ value \in ApiNames(settings.provider)
    /\ settings' = [settings EXCEPT !.defaultModel = value]
    /\ UNCHANGED <<adapter, call, ui, editor, defaults>>

\* AIRevisionPlugin.handleRevisionRequest, through the submit of the
\* RevisionModal: without a selection it ends with a Notice;
\* this.aiAdapter.isReady() faults when there is no adapter; an adapter that
\* is not ready ends it with a Notice; otherwise the modal submits and the
\* callback calls generateResponse with the selection and the whole note.
revisionRequest(instructions, model) ==
    /\ call.pc # "inflight"
    /\ model \in Submittable(settings)
    /\ IF ~Truthy(getSelection(editor))
       THEN /\ ui' = [IdleUi EXCEPT !.notice = "Please select text to revise"]
            /\ UNCHANGED <<adapter, call>>
       ELSE IF adapter.kind = "none"
       THEN /\ ui' = [IdleUi EXCEPT !.fault = TRUE]
            /\ UNCHANGED <<adapter, call>>
       ELSE IF ~isReady(adapter)
       THEN /\ ui' = [IdleUi EXCEPT !.notice =
                        "AI provider is not properly configured. Please check settings."]
            /\ UNCHANGED <<adapter, call>>
       ELSE LET g == generateCall(adapter, instructions, model,
                                  getSelection(editor), getValue(editor))
            IN  /\ adapter' = g.adapter
                /\ call' = g.call
                /\ ui' = IF g.call.pc = "done"
                         THEN afterGenerate(model, g.call.result[1])
                         ELSE [IdleUi EXCEPT !.model = model,
                                             !.notice = "Generating revision..."]
    /\ UNCHANGED <<settings, editor, defaults>>

\* The command 'Revise selected text' or the editor menu's 'Revise with AI',
\* with no ResultModal in the way.
HandleRevisionRequest(instructions, model) ==
    /\ ui.modal = "none"
    /\ revisionRequest(instructions, model)

\* The network answers the request in flight; a generateResponse the
\* revision callback awaits then runs to its end, and the callback with it.
ReceiveResponse(outcome) ==
    /\ call.pc = "inflight"
    /\ outcome \in Outcomes(call.kind)
    /\ LET c == respondCall(call, outcome)
       IN  /\ call' = c
           /\ ui' = IF call.op = "generate"
                    THEN afterGenerate(ui.model, c.result[1])
                    ELSE ui
    /\ UNCHANGED <<adapter, settings, editor, defaults>>

\* ResultModal, the user types in the textarea of the revised text.
EditRevisedText(value) ==
    /\ ui.modal = "result"
    /\ ui' = [ui EXCEPT !.text = value]
    /\ UNCHANGED <<adapter, call, settings, editor, defaults>>

\* ResultModal, Apply: applyChanges() replaces the editor's selection with
\* the textarea's value, shows a Notice and closes the modal.
Apply ==
    /\ ui.modal = "result"
    /\ editor' = replaceSelection(editor, ui.text)
    /\ ui' = [ui EXCEPT !.modal = "none",
                        !.notice = "Text replaced successfully"]
    /\ UNCHANGED <<adapter, call, settings, defaults>>

\* ResultModal, Copy to Clipboard: copyToClipboard() writes the textarea's
\* value to the clipboard and shows a Notice; the modal stays.
Copy ==
    /\ ui.modal = "result"
    /\ ui' = [ui EXCEPT !.notice = "Copied to clipboard"]
    /\ UNCHANGED <<adapter, call, settings, editor, defaults>>

\* ResultModal, Retry: close(), then onRetry() runs handleRevisionRequest
\* on the same editor.
Retry(instructions, model) ==
    /\ ui.modal = "result"
    /\ revisionRequest(instructions, model)

\* ResultModal, Cancel: close().
Cancel ==
    /\ ui.modal = "result"
    /\ ui' = [ui EXCEPT !.modal = "none"]
    /\ UNCHANGED <<adapter, call, settings, editor, defaults>>

\* The user selects the sentence again, with no modal open and no revision
\* running.
SelectText ==
    /\ ui.modal = "none"
    /\ call.pc # "inflight"
    /\ ~editor.selected
    /\ editor' = [editor EXCEPT !.selected = TRUE]
    /\ UNCHANGED <<adapter, call, settings, ui, defaults>>

NextPlugin ==
    \/ \E p \in AIProvider : ProviderOnChange(p)
    \/ \E k \in TypedKeys(OpenRouter) \cup TypedKeys(OpenAI) : ApiKeyOnChange(k)
    \/ \E m \in DefaultModels : DefaultModelOnChange(m)
    \/ \E prompt \in Prompts, id \in DefaultModels :
            HandleRevisionRequest(prompt, id)
    \/ TestConnection
    \/ \E o \in UNION {Outcomes(kind) : kind \in AIProvider} :
            ReceiveResponse(o)
    \/ Cancel

SpecPlugin == InitPlugin /\ [][NextPlugin]_vars

\* ------------------------------------------------------------ LM Studio
\* The plugin loaded with LM Studio as the stored provider, and its settings
\* tab with the LM Studio fields.
\* The port and the model name the user types in the LM Studio fields.
TypedPorts == {"8080"}
TypedModelNames == {"llama-3"}

\* SettingsService.updateLMStudioSettings: this.settings.lmStudio becomes a
\* new object.
updateLMStudioSettings(s, port, modelName) ==
    [s EXCEPT !.lmStudio = [port |-> port, modelName |-> modelName]]

\* settingsTab.addLMStudioSettings, the port field's onChange:
\* settingsService.updateLMStudioSettings(value, settings.lmStudio.modelName)
\* and nothing else.
PortOnChange(value) ==
    /\ settings.provider = LMStudio
    /\ settings' = updateLMStudioSettings(settings, value,
                                          settings.lmStudio.modelName)
    /\ UNCHANGED <<adapter, call, ui, editor, defaults>>

\* settingsTab.addLMStudioSettings, the model name field's onChange:
\* settingsService.updateLMStudioSettings(settings.lmStudio.port, value)
\* and nothing else.
ModelNameOnChange(value) ==
    /\ settings.provider = LMStudio
    /\ settings' = updateLMStudioSettings(settings, settings.lmStudio.port,
                                          value)
    /\ UNCHANGED <<adapter, call, ui, editor, defaults>>

InitLocal ==
    /\ settings \in {s \in SavedSettings : s.provider = LMStudio}
    /\ adapter = initializeAIAdapter(NoAdapter, settings)
    /\ call = IdleCall
    /\ ui = IdleUi
    /\ editor = InitialEditor
    /\ defaults = ShippedDefaults

NextLocal ==
    \/ \E p \in AIProvider : ProviderOnChange(p)
    \/ \E k \in TypedKeys(OpenRouter) \cup TypedKeys(OpenAI) : ApiKeyOnChange(k)
    \/ \E m \in DefaultModels : DefaultModelOnChange(m)
    \/ \E port \in TypedPorts : PortOnChange(port)
    \/ \E m \in TypedModelNames : ModelNameOnChange(m)
    \/ \E prompt \in Prompts, id \in DefaultModels :
            HandleRevisionRequest(prompt, id)
    \/ TestConnection
    \/ \E o \in UNION {Outcomes(kind) : kind \in AIProvider} :
            ReceiveResponse(o)
    \/ Cancel

SpecLocal == InitLocal /\ [][NextLocal]_vars

\* ------------------------------------------------------------ revisions
\* The revision dialogue alone: requests, the network's answers, the
\* ResultModal's buttons and the editor, with every provider configured.

\* What the user types over the revised text.
TypedTexts == {"Edited."}

\* Saved settings with a key for both hosted providers.
ConfiguredSettings ==
    [provider : AIProvider,
     apiKeys : {[openrouter |-> "sk-or", openai |-> "sk-oa"]},
     defaultModel : {"anthropic/claude-4-sonnet"},
     defaultTemperature : {DEFAULT_SETTINGS.defaultTemperature},
     lmStudio : {DEFAULT_SETTINGS.lmStudio}]

InitRevision ==
    /\ settings \in ConfiguredSettings
    /\ adapter = initializeAIAdapter(NoAdapter, settings)
    /\ call = IdleCall
    /\ ui = IdleUi
    /\ editor = InitialEditor
    /\ defaults = ShippedDefaults

NextRevision ==
    \/ \E prompt \in Prompts, id \in DefaultModels :
            HandleRevisionRequest(prompt, id)
    \/ \E o \in UNION {Outcomes(kind) : kind \in AIProvider} :
            ReceiveResponse(o)
    \/ \E t \in TypedTexts : EditRevisedText(t)
    \/ Apply
    \/ Copy
    \/ \E prompt \in Prompts, id \in DefaultModels : Retry(prompt, id)
    \/ Cancel
    \/ SelectText

SpecRevision == InitRevision /\ [][NextRevision]_vars

\* ------------------------------------------------------------ settings service
\* The SettingsService alone, under any sequence of calls of its methods.
\* defaults.settings is what the DEFAULT_SETTINGS object holds now;
\* defaults.same tells that this.settings is that very object and
\* defaults.shared which of its nested objects this.settings refers to, so
\* that a write through this.settings is a write to DEFAULT_SETTINGS.

\* The fields of PluginSettings that hold an object.
NestedKeys == {"apiKeys", "lmStudio"}

\* new SettingsService(plugin): this.settings = DEFAULT_SETTINGS
ConstructedDefaults ==
    [settings |-> DEFAULT_SETTINGS, same |-> TRUE, shared |-> NestedKeys,
     reset |-> FALSE]

\* What plugin.loadData() resolves to: the fields the saved object has (none
\* when it is null) and their values.
LoadedData ==
    [has : {{}, {"provider", "defaultModel"}, {"apiKeys"},
            {"provider", "apiKeys", "defaultModel", "defaultTemperature",
             "lmStudio"}},
     value : {[provider |-> OpenAI,
               apiKeys |-> [openrouter |-> "", openai |-> "sk-oa"],
               defaultModel |-> "gpt-4o-mini",
               defaultTemperature |-> 30,
               lmStudio |-> [port |-> "8080", modelName |-> "llama-3"]]}]

\* Object.assign({}, DEFAULT_SETTINGS, loadedData): a new object with the
\* fields of DEFAULT_SETTINGS as they are now, overwritten by the saved ones.
loadSettings(d, data) ==
    LET Field(k) == IF k \in data.has THEN data.value[k] ELSE d.settings[k]
    IN  [provider |-> Field("provider"),
         apiKeys |-> Field("apiKeys"),
         defaultModel |-> Field("defaultModel"),
         defaultTemperature |-> Field("defaultTemperature"),
         lmStudio |-> Field("lmStudio")]

\* The values the settings tab passes to updateSetting and
\* updateNestedSetting.
SettingUpdates ==
    {<<"provider", OpenAI>>, <<"defaultModel", "gpt-4o-mini">>,
     <<"defaultTemperature", 30>>}
NestedSettingUpdates ==
    {<<"apiKeys", OpenRouter, "sk-or">>, <<"lmStudio", "port", "8080">>}

\* { ...DEFAULT_SETTINGS }: a new object with the fields of DEFAULT_SETTINGS
\* as they are now.
resetSettings(d) == d.settings

InitSettings ==
    /\ settings = DEFAULT_SETTINGS
    /\ defaults = ConstructedDefaults
    /\ adapter = NoAdapter
    /\ call = IdleCall
    /\ ui = IdleUi
    /\ editor = InitialEditor

\* SettingsService.loadSettings
LoadSettings(data) ==
    /\ settings' = loadSettings(defaults, data)
    /\ defaults' = [defaults EXCEPT !.same = FALSE,
                                    !.shared = NestedKeys \ data.has,
                                    !.reset = FALSE]
    /\ UNCHANGED <<adapter, call, ui, editor>>

\* SettingsService.updateSetting: this.settings[key] = value
UpdateSetting(key, value) ==
    /\ settings' = [settings EXCEPT ![key] = value]
    /\ defaults' = [defaults EXCEPT
                      !.settings = IF defaults.same
                                   THEN [@ EXCEPT ![key] = value] ELSE @,
                      !.reset = FALSE]
    /\ UNCHANGED <<adapter, call, ui, editor>>

\* SettingsService.updateNestedSetting: this.settings[key][nestedKey] = value
UpdateNestedSetting(key, nestedKey, value) ==
    /\ settings' = [settings EXCEPT ![key][nestedKey] = value]
    /\ defaults' = [defaults EXCEPT
                      !.settings = IF defaults.same \/ key \in defaults.shared
                                   THEN [@ EXCEPT ![key][nestedKey] = value]
                                   ELSE @,
                      !.reset = FALSE]
    /\ UNCHANGED <<adapter, call, ui, editor>>

\* SettingsService.setApiKey: this.settings.apiKeys[provider] = apiKey
StoreApiKey(provider, apiKey) ==
    /\ settings' = [settings EXCEPT !.apiKeys[provider] = apiKey]
    /\ defaults' = [defaults EXCEPT
                      !.settings = IF defaults.same \/ "apiKeys" \in defaults.shared
                                   THEN [@ EXCEPT !.apiKeys[provider] = apiKey]
                                   ELSE @,
                      !.reset = FALSE]
    /\ UNCHANGED <<adapter, call, ui, editor>>

\* SettingsService.updateLMStudioSettings: this.settings.lmStudio = {...}
UpdateLMStudioSettings(port, modelName) ==
    /\ settings' = updateLMStudioSettings(settings, port, modelName)
    /\ defaults' = IF defaults.same
                   THEN [defaults EXCEPT
                           !.settings = updateLMStudioSettings(@, port, modelName),
                           !.reset = FALSE]
                   ELSE [defaults EXCEPT !.shared = @ \ {"lmStudio"},
                                         !.reset = FALSE]
    /\ UNCHANGED <<adapter, call, ui, editor>>

\* SettingsService.resetSettings
ResetSettings ==
    /\ settings' = resetSettings(defaults)
    /\ defaults' = [defaults EXCEPT !.same = FALSE, !.shared = NestedKeys,
                                    !.reset = TRUE]
    /\ UNCHANGED <<adapter, call, ui, editor>>

NextSettings ==
    \/ \E data \in LoadedData : LoadSettings(data)
    \/ \E u \in SettingUpdates : UpdateSetting(u[1], u[2])
    \/ \E u \in NestedSettingUpdates : UpdateNestedSetting(u[1], u[2], u[3])
    \/ \E p \in {OpenRouter, OpenAI}, k \in TypedKeys(OpenAI) :
            StoreApiKey(p, k)
    \/ \E port \in TypedPorts, m \in TypedModelNames :
            UpdateLMStudioSettings(port, m)
    \/ ResetSettings

SpecSettings == InitSettings /\ [][NextSettings]_vars

\* ------------------------------------------------------------ properties
\* The request the invocation put on the wire, and its parts: the model it
\* names, its system directive(s), and the pieces of its user turn.
Wire == call.wire[1]
WireModel == Wire.body.model
IsChat == "messages" \in DOMAIN Wire.body
WireSystem ==
    IF IsChat
    THEN {Wire.body.messages[i].content :
            i \in {j \in 1..Len(Wire.body.messages) :
                     Wire.body.messages[j].role = "system"}}
    ELSE IF Wire.body.instructions = <<>> THEN {} ELSE {Wire.body.instructions}
WireUser ==
    IF IsChat
    THEN Wire.body.messages[Len(Wire.body.messages)].content
    ELSE Wire.body.input

Sent == call.wire # <<>>
Finished(op) == call.op = op /\ call.pc = "done"
Result == call.result[1]
Outcome == call.outcome[1]
Hosted == {OpenRouter, OpenAI}

\* The identifier model resolution is to yield: the requested one when the
\* provider's catalog declares it, else the provider's first entry.
Resolution(kind, modelApiName) ==
    IF modelApiName \in ApiNames(kind)
    THEN modelApiName
    ELSE AIModelMap[kind][1].apiName

\* The text of a resolved network answer, where the adapter's protocol puts it.
ResponseText(kind, response) ==
    IF kind = OpenAI THEN response.output_text ELSE response.content

\* C1: generate never throws past the adapter boundary: whenever something is
\* thrown during a generate call (before the request, by the network call, or
\* by the extraction), the call returns success = false with an error message
\* and its promise does not reject.
C1_GenerateNeverThrows ==
    (Finished("generate")
        /\ (~Sent \/ ~Outcome.ok
              \/ (call.kind # OpenAI
                    /\ ~Truthy(ResponseText(call.kind, Outcome.response)))))
    => (~Result.rejected /\ ~Result.success /\ Truthy(Result.error))

\* C2 (as claimed): the model identifier of every wire request, from generate
\* or from testConnection, is an apiName of the catalog of the adapter's own
\* provider, for every adapter.
C2_WireModelInCatalog ==
    Sent => WireModel \in ApiNames(call.kind)

\* C2 (amended): the same for the hosted adapters (OpenRouter, OpenAI); the
\* LM Studio adapter names its configured model name instead.
C2_HostedWireModelInCatalog ==
    (Sent /\ call.kind \in Hosted) => WireModel \in ApiNames(call.kind)

\* A hosted adapter has put on the wire a request for an identifier its
\* catalog does not declare.
C2_Witness ==
    /\ Sent /\ call.op = "generate" /\ call.kind = OpenAI
    /\ call.modelApiName \notin ApiNames(OpenAI)

\* C3 (as claimed): a generate request names exactly the requested identifier
\* when the provider's catalog declares it and the provider's first entry
\* otherwise, and an undeclared identifier does not stop a ready adapter from
\* sending the request, for every adapter.
C3_ModelResolution ==
    call.op = "generate" =>
        /\ Sent => WireModel = Resolution(call.kind, call.modelApiName)
        /\ (call.ready \/ call.kind = LMStudio) => Sent

\* C3 (amended): the same for the hosted adapters; the LM Studio adapter
\* resolves the identifier but its request names the configured model name.
C3_HostedModelResolution ==
    (call.op = "generate" /\ call.kind \in Hosted) =>
        /\ Sent => WireModel = Resolution(call.kind, call.modelApiName)
        /\ call.ready => Sent

\* OpenRouter has sent a request for an undeclared identifier under its first
\* catalog entry.
C3_Witness ==
    /\ Sent /\ call.op = "generate" /\ call.kind = OpenRouter
    /\ call.modelApiName \notin ApiNames(OpenRouter)
    /\ WireModel = "anthropic/claude-3.5-haiku"

\* The result the code returns, under the same network answer, to a request
\* whose identifier resolved: the result is built from the answer alone.
ResultOfResolvedRequest(kind, outcome) == generateReceive(kind, outcome)

\* C4: when generate substituted the provider's default model for an
\* undeclared identifier, the caller can tell: the returned result differs
\* from the one a request whose identifier resolved gets for the same answer.
C4_SubstitutionObservable ==
    (/\ Finished("generate") /\ Sent
     /\ call.modelApiName \notin ApiNames(call.kind)
     /\ WireModel = AIModelMap[call.kind][1].apiName
     /\ ~Result.rejected /\ Result.success)
    => Result # ResultOfResolvedRequest(call.kind, Outcome)

\* C5: a probe request carries the raw probe prompt as its entire prompt: no
\* system directive, and a user turn that is the prompt alone, for every
\* adapter.
C5_ProbeIsRaw ==
    (call.op = "test" /\ Sent) => (WireSystem = {} /\ WireUser = <<"Hi">>)

\* Pieces a, b, c occur in u in this order.
InOrder3(u, a, b, c) ==
    \E i, j, k \in 1..Len(u) : i < j /\ j < k /\ u[i] = a /\ u[j] = b /\ u[k] = c
InOrder2(u, b, c) ==
    \E j, k \in 1..Len(u) : j < k /\ u[j] = b /\ u[k] = c

\* C6: the user turn of a non-probe generate holds, in this order, the
\* full-context text when the caller gave one, the selected text and the
\* instructions, for every adapter.
C6_UserTurnInOrder ==
    (call.op = "generate" /\ Sent) =>
        IF Truthy(call.fullNote)
        THEN InOrder3(WireUser, call.fullNote, call.selectedText, call.prompt)
        ELSE InOrder2(WireUser, call.selectedText, call.prompt)

C8_NotReadyProbe ==
    (call.op = "test" /\ ~call.ready) =>
        /\ call.pc = "done" /\ ~Sent /\ call.netCalls = 0
        /\ Result = Resolved(FALSE)

\* testConnection has run on an LM Studio adapter with no port or no model
\* name.
C8_Witness ==
    call.op = "test" /\ ~call.ready /\ call.kind = LMStudio

\* C9: testConnection never rejects, and returns true exactly when the probe
\* call resolved and its answer holds non-empty text, for every adapter.
C9_ProbeResult ==
    Finished("test") =>
        /\ ~Result.rejected
        /\ Result.value <=> (/\ Sent
                             /\ Outcome.ok
                             /\ Truthy(ResponseText(call.kind, Outcome.response)))

\* C10: a resolved generate result has text iff it succeeded and an error
\* message iff it did not; an answer without the expected content is a
\* failure.
C10_TextIffSucceeded ==
    (Finished("generate") /\ ~Result.rejected) =>
        /\ Result.success <=> Truthy(Result.data)
        /\ ~Result.success <=> Truthy(Result.error)

\* The counter a provider reported under a name, if it reported one.
Reported(usage, field) ==
    IF usage = <<>> THEN <<>>
    ELSE IF field \in DOMAIN usage[1] THEN << usage[1][field] >> ELSE <<>>

\* The names under which a provider's protocol reports input, output and
\* total usage.
UsageFields(kind) ==
    IF kind = OpenAI
    THEN [input |-> "input_tokens", output |-> "output_tokens",
          total |-> "total_tokens"]
    ELSE [input |-> "prompt_tokens", output |-> "completion_tokens",
          total |-> "total_tokens"]

\* C11: a generate whose network answer holds text succeeds and reports
\* usage in which every counter is the one the provider reported, or 0 when
\* the provider did not report it; an answer with no usage at all gives
\* input 0, output 0, total 0 and still a success.
C11_MissingCountersAreZero ==
    (/\ Finished("generate") /\ Sent /\ Outcome.ok
     /\ Truthy(ResponseText(call.kind, Outcome.response)))
    => /\ ~Result.rejected /\ Result.success
       /\ Result.tokens # <<>>
       /\ \A c \in {"input", "output", "total"} :
            LET r == Reported(Outcome.response.usage, UsageFields(call.kind)[c])
            IN  Result.tokens[1][c] = IF r = <<>> THEN 0 ELSE r[1]
       /\ Outcome.response.usage = <<>>
            => Result.tokens[1] = [input |-> 0, output |-> 0, total |-> 0]

\* A generate succeeded on an answer that holds text and no usage.
C11_Witness ==
    /\ Finished("generate") /\ Sent /\ Outcome.ok
    /\ ~Result.rejected /\ Result.success
    /\ Outcome.response.usage = <<>>

\* Every catalog entry, of any provider.
Entries ==
    UNION {{AIModelMap[p][i] : i \in 1..Len(AIModelMap[p])} : p \in AIProvider}

\* The entries that publish both prices.
Priced == {m \in Entries : m.inputCostPer1M # <<>> /\ m.outputCostPer1M # <<>>}

\* The ResultModal of the revision whose generate is the last invocation.
ResultShown == Finished("generate") /\ ui.modal = "result"

\* C12: the cost estimate for a usage and a model identifier is absent when
\* no catalog entry with published prices has the identifier; otherwise its
\* input cost is input tokens x input price per million / 1,000,000, its
\* output cost likewise, and its total their exact sum, nothing rounded
\* (costs in millionths of a cent: 1,000,000 input tokens and no output
\* tokens at $3 / $15 per million give 3.00 dollars and 0).
C12_CostEstimate ==
    ResultShown =>
        LET tokens == Result.tokens[1]
            priced == {m \in Priced : m.apiName = ui.model}
        IN  /\ priced = {} => ui.cost = <<>>
            /\ \A m \in priced :
                 /\ ui.cost # <<>>
                 /\ ui.cost[1].input = tokens.input * m.inputCostPer1M[1]
                 /\ ui.cost[1].output = tokens.output * m.outputCostPer1M[1]
                 /\ ui.cost[1].total = ui.cost[1].input + ui.cost[1].output
            /\ (/\ tokens.input = 1000000 /\ tokens.output = 0
                /\ ui.model = "anthropic/claude-4-sonnet")
               => ui.cost = << [input |-> 3 * 100 * 1000000, output |-> 0,
                                total |-> 3 * 100 * 1000000] >>

\* A result is shown with the cost of 1,000,000 input tokens on a priced
\* model.
C12_Witness ==
    /\ ResultShown /\ ui.cost # <<>>
    /\ Result.tokens[1].input = 1000000
    /\ ui.model = "anthropic/claude-4-sonnet"

\* C13: a shown result carries no cost when the model that served the
\* request publishes no prices: the identifier the request named after
\* model resolution, or the local model of LM Studio; a generation served
\* by the local provider never shows a cost, whatever default model the
\* settings hold.
C13_NoCostWithoutServedPrice ==
    (/\ ResultShown /\ Sent
     /\ \/ call.kind = LMStudio
        \/ \A m \in Priced : m.apiName # WireModel)
    => ui.cost = <<>>

\* C14: looking up the identifier of any entry declared under any provider
\* returns that entry, and looking up an undeclared identifier (the one the
\* RevisionModal submitted among them) returns nothing.
C14_CatalogRoundTrip ==
    /\ \A p \in AIProvider : \A i \in 1..Len(AIModelMap[p]) :
         getModelByApiName(AIModelMap[p][i].apiName) = << AIModelMap[p][i] >>
    /\ \A id \in ModelIds \cup DefaultModels \cup {"", Undefined, ui.model} :
         (\A m \in Entries : m.apiName # id) => getModelByApiName(id) = <<>>

\* The plugin has looked up an identifier of the last provider's catalog: a
\* result is shown with the cost at that entry's prices.
C14_Witness ==
    /\ ResultShown
    /\ ui.model = "gpt-4o-mini" /\ ui.cost # <<>>
    /\ getModelByApiName(ui.model) = << AIModelMap[OpenAI][2] >>
    /\ Result.tokens[1].input = 12 /\ ui.cost[1].input = 12 * 50

\* C15: the model list of every provider is not empty and in declaration
\* order, the provider's default model is the first of the list, and an
\* adapter's models are the list of its provider.
C15_DefaultIsFirst ==
    /\ \A p \in AIProvider :
         /\ Len(getModelsForProvider(p)) > 0
         /\ \A i \in 1..Len(AIModelMap[p]) :
              getModelsForProvider(p)[i] = AIModelMap[p][i]
         /\ Len(getModelsForProvider(p)) = Len(AIModelMap[p])
         /\ getDefaultModelForProvider(p) = << getModelsForProvider(p)[1] >>
    /\ adapter.kind # "none" => models(adapter) = getModelsForProvider(adapter.kind)

\* A provider's default model has been put to use: a probe of the OpenRouter
\* adapter names it.
C15_Witness ==
    /\ Sent /\ call.op = "test" /\ call.kind = OpenRouter
    /\ WireModel = getDefaultModelForProvider(OpenRouter)[1].apiName

\* C16: after any sequence of setApiKey, configure, setPort and
\* setModelName calls, isReady() is true exactly when the minimum
\* configuration is there: a non-empty API key on a hosted adapter, a
\* non-empty port and a non-empty model name on the LM Studio adapter.
C16_ReadyIffConfigured ==
    adapter.kind # "none" =>
        (isReady(adapter) <=>
            IF adapter.kind \in Hosted
            THEN adapter.apiKey \notin {"", Undefined}
            ELSE adapter.port \notin {"", Undefined}
                     /\ adapter.modelName \notin {"", Undefined})

\* An LM Studio adapter whose port was set to the empty string is not ready.
C16_Witness ==
    adapter.kind = LMStudio /\ adapter.port = "" /\ ~isReady(adapter)

\* C17: configure is idempotent, and after configure(s) the adapter's stored
\* endpoint fields are those given in s; the fields are checked on the LM
\* Studio adapter, the one that has endpoint fields.
C17_ConfigureStores ==
    adapter.kind # "none" =>
        \A port \in Ports, modelName \in ModelNames :
            LET s == [port |-> port, modelName |-> modelName]
                once == configure(adapter, s)
            IN  /\ configure(once, s) = once
                /\ adapter.kind = LMStudio =>
                     once.port = port /\ once.modelName = modelName

\* C18: with an unrecognized provider name in the settings the plugin does
\* not fault on the missing adapter: a revision request ends with a Notice,
\* and a connection test reports false.
C18_NoFaultOnMissingAdapter ==
    /\ ~ui.fault
    /\ (Finished("test") /\ call.kind = "none") => Result = Resolved(FALSE)

\* C19: after any sequence of provider selections and API key edits in the
\* settings tab, the adapter the next generate or testConnection runs on is
\* an adapter of the selected provider.
C19_AdapterOfSelectedProvider ==
    settings.provider \in AIProvider => adapter.kind = settings.provider

\* The error of a hosted adapter that has no API key.
NotConfigured(kind) ==
    IF kind = OpenAI
    THEN "OpenAI client not initialized - missing API key"
    ELSE "openrouter API key is not set"

\* C20: generate on a hosted adapter whose API key is empty ends at once
\* with success = false and the provider's not-configured error, and makes
\* no network call; the LM Studio adapter, which needs no key, sends its
\* request.
C20_NoKeyNoCall ==
    call.op = "generate" =>
        /\ (call.kind \in Hosted /\ ~call.ready) =>
             /\ call.pc = "done" /\ ~Sent /\ call.netCalls = 0
             /\ Result = APIResponse(FALSE, "", <<>>, NotConfigured(call.kind))
        /\ call.kind = LMStudio => Sent /\ call.netCalls = 1

\* A generate on an OpenRouter adapter without a key has ended.
C20_Witness ==
    /\ Finished("generate") /\ call.kind = OpenRouter /\ ~call.ready
    /\ ~Sent /\ ~Result.success

\* A step in which an invocation puts its request on the wire.
Sends == call.pc # "inflight" /\ call'.pc = "inflight"

\* C21: every request the LM Studio adapter puts on the wire, from generate
\* or from testConnection, goes to http://localhost:<port>/v1/chat/completions
\* with the port the adapter holds when it sends, carries no Authorization
\* header, and names the model name the adapter holds when it sends, after
\* any sequence of configure, setPort, setModelName and setApiKey calls.
C21_LocalWire ==
    [][(Sends /\ call'.kind = LMStudio) =>
          /\ call'.wire[1].url =
               <<"http://localhost:", adapter.port, "/v1/chat/completions">>
          /\ call'.wire[1].Authorization = <<>>
          /\ call'.wire[1].body.model = adapter.modelName]_vars

\* An LM Studio adapter that was given an API key, another port and another
\* model name has sent a request.
C21_Witness ==
    /\ Sent /\ call.kind = LMStudio /\ call.pc = "inflight"
    /\ adapter.apiKey = "sk-a"
    /\ Wire.url = <<"http://localhost:", "8080", "/v1/chat/completions">>
    /\ WireModel = "llama-3"

\* C22: a generate of the OpenAI adapter whose network call resolved returns
\* output_text when the answer has it, otherwise the text of the first
\* output_text item of the first message entry of output, and fails when the
\* answer has neither.
C22_OutputParsing ==
    (Finished("generate") /\ call.kind = OpenAI /\ Sent /\ Outcome.ok) =>
        /\ ~Result.rejected
        /\ IF Truthy(Outcome.response.output_text)
           THEN Result.success /\ Result.data = Outcome.response.output_text
           ELSE IF Outcome.response.output # <<>>
           THEN Result.success /\ Result.data = Outcome.response.output[1]
           ELSE ~Result.success

\* The pieces of the user turn of a request.
UserTurn(w) ==
    IF "messages" \in DOMAIN w.body
    THEN w.body.messages[Len(w.body.messages)].content
    ELSE w.body.input

\* A request built with the revision template (CONFIG.PROMPTS.formatUserPrompt).
Templated(w) ==
    \E i \in 1..Len(UserTurn(w)) : UserTurn(w)[i] = TemplateHead

\* C23: a connection probe, whatever it returns, leaves the stored settings,
\* the adapter's API key, port and model name and the editor's document as
\* they were, and its request is not built with the revision template.
C23_ProbeFrame ==
    [][(call'.op = "test" /\ call' # call) =>
          /\ settings' = settings
          /\ editor' = editor
          /\ adapter.kind # "none" =>
               /\ adapter'.apiKey = adapter.apiKey
               /\ adapter'.port = adapter.port
               /\ adapter'.modelName = adapter.modelName
          /\ call'.wire # <<>> => ~Templated(call'.wire[1])]_vars

\* C24: while the ResultModal is open, the only step that changes the
\* editor is Apply (the step that shows 'Text replaced successfully'): it
\* puts the textarea's current value in the place of the selected text, once,
\* and closes the modal; Cancel, Retry and Copy leave the document as it is.
C24_OnlyApplyEdits ==
    [][ui.modal = "result" =>
          IF ui'.notice = "Text replaced successfully"
          THEN /\ editor'.text = [editor.text EXCEPT ![2] = ui.text]
               /\ getValue(editor') =
                    editor.text[1] \o ui.text \o editor.text[3]
               /\ ui'.modal = "none"
          ELSE editor' = editor]_vars

\* The user edited the revised text and applied it: the note holds the
\* edited text in the place of the original sentence.
C24_Witness ==
    /\ ui.modal = "none" /\ ui.notice = "Text replaced successfully"
    /\ getValue(editor) = "Intro. Edited. End."

\* C25: the Authorization credential of every request a hosted adapter puts
\* on the wire, after any sequence of provider selections, API key edits and
\* generate / testConnection calls, is the key the settings store for the
\* provider the request goes to.
C25_KeyToOwnProvider ==
    [][(Sends /\ call'.kind \in Hosted) =>
          call'.wire[1].Authorization =
              <<"Bearer ", settings.apiKeys[call'.kind]>>]_vars

\* C26: a generate call of a hosted adapter reads the API key once, in the
\* step that checks it: the request it puts on the wire carries the whole,
\* non-empty key the adapter holds at that moment, and setApiKey calls that
\* run while the request is in flight do not alter the request.
C26_OneKeyPerRequest ==
    [][/\ (Sends /\ call'.op = "generate" /\ call'.kind \in Hosted) =>
            /\ Truthy(adapter.apiKey)
            /\ adapter.apiKey \in ApiKeys
            /\ call'.wire[1].Authorization = <<"Bearer ", adapter.apiKey>>
       /\ (call.pc = "inflight" /\ call.op = "generate") =>
            call'.wire = call.wire]_vars

\* A generate request of a hosted adapter is in flight with the key sk-a
\* while setApiKey has already stored sk-b on the adapter.
C26_Witness ==
    /\ call.pc = "inflight" /\ call.op = "generate" /\ call.kind \in Hosted
    /\ Wire.Authorization = <<"Bearer ", "sk-a">>
    /\ adapter.kind = call.kind /\ adapter.apiKey = "sk-b"

\* C27: on the OpenAI adapter, after every step, a cached SDK client exists
\* exactly when the API key is non-empty, and it is the client constructed
\* with the current key; a request the adapter sends goes through the client
\* of the key the adapter holds, never through one bound to an earlier key.
C27_ClientFollowsKey ==
    [][/\ adapter'.kind = OpenAI =>
            /\ (adapter'.client # <<>>) <=> Truthy(adapter'.apiKey)
            /\ adapter'.client # <<>> => adapter'.client = <<adapter'.apiKey>>
       /\ (Sends /\ call'.kind = OpenAI) =>
            call'.wire[1].Authorization = <<"Bearer ", adapter'.apiKey>>]_vars

\* The OpenAI adapter sent a request with sk-a, was then given sk-b, and
\* holds the client constructed with sk-b.
C27_Witness ==
    /\ adapter.kind = OpenAI /\ adapter.apiKey = "sk-b"
    /\ adapter.client = << "sk-b" >>
    /\ call.kind = OpenAI /\ Sent
    /\ Wire.Authorization = <<"Bearer ", "sk-a">>

\* C28: whenever the LM Studio adapter puts a request on the wire, for a
\* revision or a connection test, the port and the model name it holds, and
\* so the ones of the request, are the ones the settings store for LM
\* Studio, also after the user edited them in the settings tab.
C28_LocalSettingsInForce ==
    [][(Sends /\ call'.kind = LMStudio) =>
          /\ adapter.port = settings.lmStudio.port
          /\ adapter.modelName = settings.lmStudio.modelName
          /\ call'.wire[1].url =
                <<"http://localhost:", settings.lmStudio.port,
                  "/v1/chat/completions">>
          /\ call'.wire[1].body.model = settings.lmStudio.modelName]_vars

\* C29: the DEFAULT_SETTINGS object holds the values the plugin ships with
\* after any sequence of SettingsService operations, and right after
\* resetSettings every setting (provider, API keys, default model, default
\* temperature, LM Studio port and model name) has its shipped value.
C29_ResetRestoresDefaults ==
    /\ defaults.settings = ShippedDefaults.settings
    /\ defaults.reset => settings = ShippedDefaults.settings

\* C30: a step in which the generateResponse of a revision returns a result
\* with success = false opens no ResultModal, computes no cost and leaves
\* the editor as it is; it shows the notice 'Error: <the error>', and after
\* it no request is in flight and no modal is open, so that the user can
\* start a new request.
C30_FailureOnlyNotifies ==
    [][(/\ call' # call /\ call'.op = "generate" /\ call'.pc = "done"
        /\ ~call'.result[1].rejected /\ ~call'.result[1].success) =>
          /\ ui'.modal = "none" /\ ui'.text = "" /\ ui'.cost = <<>>
          /\ ~ui'.fault
          /\ ui'.notice = "Error: " \o OrElse(call'.result[1].error,
                                              "Failed to generate revision")
          /\ editor' = editor
          /\ settings' = settings]_vars

\* A revision request went out, the network refused it, and the user sees
\* the error notice over an untouched note with the text still selected.
C30_Witness ==
    /\ Finished("generate") /\ Sent /\ ~Outcome.ok
    /\ ~Result.rejected /\ ~Result.success
    /\ ui.modal = "none" /\ ui.cost = <<>>
    /\ ui.notice = "Error: " \o Result.error
    /\ getValue(editor) = "Intro. The cat sat. End." /\ editor.selected

====
